---- MODULE Spec2Model ----
(***************************************************************************)
(* Chandy-Misra-Haas edge-chasing deadlock detection, goroutine version    *)
(* (src/unnamed/part_003): every Process runs an initiation loop (Run), a  *)
(* handling loop (handleProbes) and one acknowledgment-wait goroutine per  *)
(* completed sendProbe call.  Probes travel over buffered channels.        *)
(***************************************************************************)
EXTENDS Integers, Sequences, FiniteSets, TLC

\* ------------------------------------------------------------------ bounds

\* Clock readings time.Now().UnixNano() can return during a run: 1..MaxTime.
MaxTime == 2

\* Sessions a run starts at most, on the smaller and on the larger graphs.
MaxInits == 2
FewInits == 1

\* Config.ChanBufferSize (20 in main), scaled down so that queues fill up.
ChanBufferSize == 1

\* ------------------------------------------------------------- topologies

\* A dependency graph: process id (0..n-1) -> ordered successor list.
Graph(lists) == [i \in 0..(Len(lists) - 1) |-> lists[i + 1]]

\* main: p0 -> p1 -> ... -> p(n-1) -> p0.
Ring(n) == [i \in 0..(n - 1) |-> <<(i + 1) % n>>]

\* p0 -> p1 -> ... -> p(n-1), the last process has no successor.
Chain(n) == [i \in 0..(n - 1) |-> IF i = n - 1 THEN <<>> ELSE <<i + 1>>]

\* Ordered successor lists over ids 0..2, no id twice.
Lists3 ==
    ({<<>>} \cup {<<a>> : a \in 0..2})
        \cup ({<<a, b>> : a \in 0..2, b \in 0..2} \ {<<a, a>> : a \in 0..2})

RECURSIVE ReachFrom(_, _, _)
\* Processes reachable from the set `front` along one or more edges of g.
ReachFrom(g, front, seen) ==
    LET next == UNION {{g[q][i] : i \in 1..Len(g[q])} : q \in front}
    IN  IF next \subseteq seen THEN seen
        ELSE ReachFrom(g, next \ seen, seen \cup next)

\* p can reach itself along one or more dependency edges.
OnCycle(g, p) == p \in ReachFrom(g, {p}, {})

Acyclic(g) == \A p \in DOMAIN g : ~OnCycle(g, p)

Succs(g, q) == {g[q][i] : i \in 1..Len(g[q])}

RECURSIVE CycleLens(_, _, _, _)
\* The lengths of the simple cycles through p that start with the simple
\* path over `seen` from p to q.
CycleLens(g, p, q, seen) ==
    (IF p \in Succs(g, q) THEN {Cardinality(seen)} ELSE {})
        \cup UNION {CycleLens(g, p, r, seen \cup {r}) : r \in Succs(g, q) \ seen}

\* The lengths k of the simple cycles p lies on.
CycleLengths(g, p) == CycleLens(g, p, p, {p})

\* Every acyclic graph on three processes.
Acyclic3 ==
    {g \in {Graph(<<a, b, c>>) : a \in Lists3, b \in Lists3, c \in Lists3} :
        Acyclic(g)}

\* 0 fans out to itself and to 1, 1 -> 0.
SelfFan == Graph(<< <<0, 1>>, <<0>> >>)

\* Two cycles through 0: 0 -> 1 -> 0 and 0 -> 2 -> 1 -> 0.
TwoCycles == Graph(<< <<2, 1>>, <<0>>, <<1>> >>)

\* A cycle that avoids 0: 0 -> 1 -> 2 -> 1, and 2 -> 0.
CycleAside == Graph(<< <<1>>, <<2>>, <<1, 0>> >>)

\* 0 -> 1 -> 2, 2 fans out to 3 and 4, 3 -> 0 closes the cycle, 4 -> 1.
LongFan == Graph(<< <<1>>, <<2>>, <<3, 4>>, <<0>>, <<1>> >>)

\* A case: a graph and the number of sessions a run on it starts at most.
Cases(graphs, sessions) == {<<g, sessions>> : g \in graphs}

AcyclicCases ==
    Cases(Acyclic3 \cup {Chain(4)}, FewInits) \cup Cases({Chain(3)}, MaxInits)

Topologies ==
    Cases({Ring(2)}, MaxInits) \cup Cases({SelfFan, Ring(3)}, FewInits)

RunCases ==
    Cases({Ring(2), SelfFan, Ring(3)}, MaxInits)
        \cup Cases({TwoCycles, CycleAside}, FewInits)

RingCases == Cases({Ring(2), Ring(3), Ring(4)}, MaxInits)

FanCases == Cases({LongFan}, FewInits)

AllProcs == 0..4
Sids == 1..MaxTime

\* ------------------------------------------------------------------ state

VARIABLES
    driver,         \* main: where it is, and the next process whose wg it waits for
    successors,     \* Process.successors, set in main before the goroutines start
    now,            \* the latest reading of time.Now().UnixNano() (0: none)
    lastTick,       \* per process: the reading at its last session (0: none)
    budget,         \* sessions the run may still start (bounds the model)
    cancelled,      \* ctx.Done() is closed
    stopClosed,     \* per process: stopChan is closed
    visited,        \* Process.visited: session ids marked true
    deadlockCache,  \* Process.deadlockCache: session ids marked true
    probeChan,      \* Process.probeChan: the buffered channel's content
    messagesSent,   \* Process.messagesSent
    heap,           \* backing arrays of the Visited slices
    ackChan,        \* Probe.AckChan: acknowledgments buffered per channel
    ackWait,        \* live acknowledgment-wait goroutines: acks received
    run,            \* per process: where its Run loop is
    handle,         \* per process: where its handleProbes loop is
    \* history
    initiated,      \* <<p, sid>> of every session started
    sendCalls,      \* <<p, sid, initiator>> of every sendProbe call, numbered
    enqLog,         \* every enqueue into a probeChan, numbered per edge
    abandoned,      \* sessions with a probe given up at a deadline
    reportLog       \* every "Deadlock detected" line, numbered per (p, sid)

\* The RPC server (src/unnamed/part_001).
VARIABLES
    processes,      \* DeadlockService.processes: the table, a slice of Process
    mutex,          \* DeadlockService.mutex: 0 when free, else the call holding it
    globalMessageCounter,   \* DeadlockService.globalMessageCounter
    calls,          \* the DetectDeadlock calls: position, locals and response
    addsLeft,       \* AddProcess calls the run may still make (bounds the model)
    addLog          \* history: every AddProcess call, with the index it stored at

\* The recursive variant (src/unnamed/part_000).
VARIABLES
    waitingFor,     \* Process.waitingFor per process id of the map
    receivedProbes, \* Process.receivedProbes per process id: ids marked true
    pending,        \* the ids the range over the map has not yet yielded
    verdict         \* what detectDeadlock printed last: "", confirmed or none

actorVars ==
    <<driver, successors, now, lastTick, budget, cancelled, stopClosed,
      visited, deadlockCache, probeChan, messagesSent, heap, ackChan, ackWait,
      run, handle, initiated, sendCalls, enqLog, abandoned, reportLog>>

serviceVars ==
    <<processes, mutex, globalMessageCounter, calls, addsLeft, addLog>>

basicVars == <<waitingFor, receivedProbes, pending, verdict>>

vars == <<actorVars, serviceVars, basicVars>>

Procs == DOMAIN successors

NoProbe == [SessionID |-> 0]
Idle(pc) == [pc |-> pc, probe |-> NoProbe, idx |-> 0]

\* ----------------------------------------------------------------- slices

\* A slice value: backing array, length; its capacity is the array's length.
Slice(arr, len) == [arr |-> arr, len |-> len]
Cap(h, s) == Len(h[s.arr])
ReadSlice(h, s) == SubSeq(h[s.arr], 1, s.len)

\* runtime growslice for a small []int: double the capacity.
GrowCap(old, need) == IF need > 2 * old THEN need ELSE 2 * old

\* Mutant of append: the path is passed on as it is.
AppendNothing(h, s, v, key) == [heap |-> h, slice |-> s]

\* append(s, v): in place when the capacity allows, else into a new array
\* (named key) holding a copy.  Returns the new heap and the new slice.
AppendSlice(h, s, v, key) ==
    IF s.len < Cap(h, s)
    THEN [heap |-> [h EXCEPT ![s.arr][s.len + 1] = v],
          slice |-> Slice(s.arr, s.len + 1)]
    ELSE LET cap == GrowCap(Cap(h, s), s.len + 1)
             arr == [i \in 1..cap |->
                        IF i <= s.len THEN h[s.arr][i]
                        ELSE IF i = s.len + 1 THEN v ELSE 0]
         IN  [heap |-> (key :> arr) @@ h, slice |-> Slice(key, s.len + 1)]

\* --------------------------------------------------------------- the probe

\* What names a probe built by p: its sender, session and initiator.
ProbeKey(p, sid, init) == <<p, sid, init>>

\* ------------------------------------------------------- garbage collection

\* The probes some goroutine or channel still holds.
LiveProbes(chans, r, h) ==
    (UNION {{chans[p][i] : i \in 1..Len(chans[p])} : p \in DOMAIN chans}
        \cup {r[p].probe : p \in DOMAIN r} \cup {h[p].probe : p \in DOMAIN h})
    \ {NoProbe}

Restrict(f, keep) == [x \in DOMAIN f \cap keep |-> f[x]]

\* The Go runtime frees what nothing refers to: of the arrays hp and the
\* acknowledgment channels ac, the next state keeps those that a live probe
\* or a live acknowledgment-wait goroutine refers to.
Collect(hp, ac) ==
    LET live == LiveProbes(probeChan', run', handle')
    IN  /\ heap' = Restrict(hp, {pr.Visited.arr : pr \in live})
        /\ ackChan' =
               Restrict(ac, {pr.AckChan : pr \in live} \cup DOMAIN ackWait')

\* ------------------------------------------------------------------- Init

\* The state once main has built the processes of one of the cases' graphs
\* and issued its go statements.  With
\* pc "new" no Run goroutine has been scheduled yet, with pc "select" every
\* Run goroutine has started its handling loop and waits in its select.
InitActors(cases, pc) ==
    /\ \E c \in cases : successors = c[1] /\ budget = c[2]
    /\ driver = [pc |-> "select", idx |-> 0]
    /\ now = 0
    /\ lastTick = [p \in DOMAIN successors |-> 0]
    /\ cancelled = FALSE
    /\ stopClosed = [p \in DOMAIN successors |-> FALSE]
    /\ visited = [p \in DOMAIN successors |-> {}]
    /\ deadlockCache = [p \in DOMAIN successors |-> {}]
    /\ probeChan = [p \in DOMAIN successors |-> <<>>]
    /\ messagesSent = [p \in DOMAIN successors |-> 0]
    /\ heap = <<>>
    /\ ackChan = <<>>
    /\ ackWait = <<>>
    /\ run = [p \in DOMAIN successors |-> Idle(pc)]
    /\ handle = [p \in DOMAIN successors |-> Idle(pc)]
    /\ initiated = {}
    /\ sendCalls = {}
    /\ enqLog = {}
    /\ abandoned = {}
    /\ reportLog = {}

\* Bounds of the RPC server's model: DetectDeadlock calls, AddProcess calls.
MaxCalls == 2
MaxAdds == 2

Calls == 1..MaxCalls

\* The largest table of the RPC server's model.
MaxTable == 5

\* A DetectDeadlock call that has not arrived.  History: table is the table
\* when the traversal took the mutex, traversed the edges it went over.
NoCall ==
    [pc |-> "idle", start |-> 0, visited |-> {}, messageCounts |-> <<>>,
     localMessageCounter |-> 0, stack |-> <<>>, table |-> <<>>,
     traversed |-> <<>>,
     res |-> [Message |-> "", DeadlockStatus |-> "", MessageCounts |-> <<>>,
              TotalMessages |-> 0]]

\* The server with the table tbl, no call under way.
InitService(tbl, adds) ==
    /\ processes = tbl
    /\ mutex = 0
    /\ globalMessageCounter = 0
    /\ calls = [r \in Calls |-> NoCall]
    /\ addsLeft = adds
    /\ addLog = {}

\* The recursive variant on the map wf, before detectDeadlock.
InitBasic(wf) ==
    /\ waitingFor = wf
    /\ receivedProbes = [id \in DOMAIN wf |-> {}]
    /\ pending = DOMAIN wf
    /\ verdict = ""

\* The table main builds from a graph: process i at index i, with ID i.
Table(g) ==
    [i \in 1..Cardinality(DOMAIN g) |-> [ID |-> i - 1, Neighbors |-> g[i - 1]]]

\* The tables the RPC server starts from, each with the number of AddProcess
\* calls a run makes at most: main's ring of four, and smaller ones.
ServiceCases ==
    {<<Table(Ring(4)), 1>>, <<Table(Ring(2)), MaxAdds>>,
     <<Table(Chain(2)), 1>>, <<Table(TwoCycles), 1>>,
     <<Table(CycleAside), 1>>, <<Table(Ring(1)), MaxAdds>>}

\* The goroutine version alone: the other two programs are not running.
InitWith(cases, pc) ==
    /\ InitActors(cases, pc)
    /\ InitService(<<>>, 0)
    /\ InitBasic(<<>>)

\* The RPC server alone, listening.
InitRPC ==
    /\ InitActors(Cases({Graph(<<>>)}, 0), "done")
    /\ \E c \in ServiceCases : InitService(c[1], c[2])
    /\ InitBasic(<<>>)

\* The process ids of the map in main, and the waitingFor lists over them.
BasicIDs == 1..3
BasicLists ==
    ({<<>>} \cup {<<a>> : a \in BasicIDs})
        \cup ({<<a, b>> : a \in BasicIDs, b \in BasicIDs}
                 \ {<<a, a>> : a \in BasicIDs})

\* Five processes with the cycles 1 -> 5 -> 3 -> 4 -> 1 and 1 -> 3 -> 4 -> 1;
\* 2 waits for 1 and 4.
HiddenCycle ==
    (1 :> <<5, 3>>) @@ (2 :> <<1, 4>>) @@ (3 :> <<4>>) @@ (4 :> <<1>>)
        @@ (5 :> <<3>>)

\* The maps detectDeadlock is run on: every process waits for processes of
\* the map.
BasicMaps == [BasicIDs -> BasicLists] \cup {HiddenCycle}

\* The recursive variant alone, on one of the maps.
InitRecursive ==
    /\ InitActors(Cases({Graph(<<>>)}, 0), "done")
    /\ InitService(<<>>, 0)
    /\ \E wf \in BasicMaps : InitBasic(wf)

Init == InitWith(Topologies, "new")
InitAcyclic == InitWith(AcyclicCases, "select")
InitRun == InitWith(RunCases, "select")
InitRing == InitWith(RingCases, "select")
InitFan == InitWith(FanCases, "select")
InitPaths == InitWith(RunCases \cup FanCases, "select")

\* ------------------------------------------------------------ the driver

\* main: cancel(), after the simulation time or a signal; main goes on to
\* p0.wg.Wait().
Cancel ==
    /\ ~cancelled
    /\ cancelled' = TRUE
    /\ driver' = [pc |-> "wait", idx |-> 0]
    /\ UNCHANGED <<serviceVars, basicVars, successors, now, lastTick, budget, stopClosed, visited,
                   deadlockCache, probeChan, messagesSent, heap, ackChan,
                   ackWait, run, handle, initiated, sendCalls, enqLog,
                   abandoned, reportLog>>

\* The counter of p.wg: Run adds one for itself and one for the handling
\* loop once it is scheduled; each takes one off when it returns.  The
\* acknowledgment-wait goroutines are not counted.
WgCount(p) ==
    (IF run[p].pc \in {"new", "done"} THEN 0 ELSE 1)
        + (IF handle[p].pc \in {"new", "done"} THEN 0 ELSE 1)

\* main: p.wg.Wait() returns when the counter of p.wg is zero.
Wait(p) ==
    /\ driver.pc = "wait"
    /\ driver.idx = p
    /\ WgCount(p) = 0
    /\ driver' = [driver EXCEPT !.idx = p + 1]
    /\ UNCHANGED <<serviceVars, basicVars, successors, now, lastTick, budget, cancelled, stopClosed,
                   visited, deadlockCache, probeChan, messagesSent, heap,
                   ackChan, ackWait, run, handle, initiated, sendCalls,
                   enqLog, abandoned, reportLog>>

\* main: after the last Wait, print the final metrics and return; the
\* program ends, whatever goroutines are left.
Metrics ==
    /\ driver.pc = "wait"
    /\ driver.idx = Cardinality(Procs)
    /\ driver' = [driver EXCEPT !.pc = "exit"]
    /\ UNCHANGED <<serviceVars, basicVars, successors, now, lastTick, budget, cancelled, stopClosed,
                   visited, deadlockCache, probeChan, messagesSent, heap,
                   ackChan, ackWait, run, handle, initiated, sendCalls,
                   enqLog, abandoned, reportLog>>

\* The processes whose goroutines can take steps: none once main returned.
Running == IF driver.pc = "exit" THEN {} ELSE Procs

\* -------------------------------------------------------------------- Run

\* go p.Run(ctx) is scheduled: Run starts the handling loop and its ticker.
Start(p) ==
    /\ run[p].pc = "new"
    /\ run' = [run EXCEPT ![p] = Idle("select")]
    /\ handle' = [handle EXCEPT ![p] = Idle("select")]
    /\ UNCHANGED <<serviceVars, basicVars, driver, successors, now, lastTick, budget, cancelled, stopClosed,
                   visited, deadlockCache, probeChan, messagesSent, heap,
                   ackChan, ackWait, initiated, sendCalls, enqLog, abandoned,
                   reportLog>>

\* Run, case <-ctx.Done(): close(p.stopChan); return.
RunStop(p) ==
    /\ run[p].pc = "select"
    /\ cancelled
    /\ stopClosed' = [stopClosed EXCEPT ![p] = TRUE]
    /\ run' = [run EXCEPT ![p] = Idle("done")]
    /\ UNCHANGED <<serviceVars, basicVars, driver, successors, now, lastTick, budget, cancelled, visited,
                   deadlockCache, probeChan, messagesSent, heap, ackChan,
                   ackWait, handle, initiated, sendCalls, enqLog, abandoned,
                   reportLog>>

\* A sendProbe call by p for a session, numbered per (p, session).
SendCall(p, sid) ==
    [proc |-> p, sid |-> sid,
     n |-> Cardinality({c \in sendCalls : c.proc = p /\ c.sid = sid}) + 1]

\* Run, case <-ticker.C: the select takes a tick whether or not ctx.Done() is
\* ready too.  The clock never runs backwards, and two ticks of one process
\* are a ProbeInterval apart, so they read different values; ticks of
\* different processes may read the same value.  A tick of a process
\* without successors changes nothing.
Tick(p) ==
    /\ run[p].pc = "select"
    /\ IF Len(successors[p]) > 0
       THEN \E sessionID \in Sids :
            LET key == ProbeKey(p, sessionID, p)
                probe == [SessionID |-> sessionID, Initiator |-> p,
                          Sender |-> p, Visited |-> Slice(key, 1),
                          AckChan |-> key]
            IN  /\ sessionID >= now
                /\ sessionID > lastTick[p]
                /\ budget > 0
                /\ budget' = budget - 1
                /\ now' = sessionID
                /\ lastTick' = [lastTick EXCEPT ![p] = sessionID]
                /\ visited' = [visited EXCEPT ![p] = @ \cup {sessionID}]
                /\ heap' = (key :> <<p>>) @@ heap
                /\ ackChan' = (key :> 0) @@ ackChan
                /\ initiated' = initiated \cup {<<p, sessionID>>}
                /\ sendCalls' = sendCalls \cup {SendCall(p, sessionID)}
                /\ run' = [run EXCEPT ![p] =
                              [pc |-> "send", probe |-> probe, idx |-> 0]]
       ELSE UNCHANGED <<budget, now, lastTick, visited, heap, ackChan,
                        initiated, sendCalls, run>>
    /\ UNCHANGED <<serviceVars, basicVars, driver, successors, cancelled, stopClosed, deadlockCache,
                   probeChan, messagesSent, ackWait, handle, enqLog,
                   abandoned, reportLog>>

\* ----------------------------------------------------------- handleProbes

\* handleProbes, case <-ctx.Done(): return.
HandleStop(p) ==
    /\ handle[p].pc = "select"
    /\ cancelled
    /\ handle' = [handle EXCEPT ![p] = Idle("done")]
    /\ UNCHANGED <<serviceVars, basicVars, driver, successors, now, lastTick, budget, cancelled, stopClosed,
                   visited, deadlockCache, probeChan, messagesSent, heap,
                   ackChan, ackWait, run, initiated, sendCalls, enqLog,
                   abandoned, reportLog>>

\* handleProbes, case probe := <-p.probeChan.
HandleRecv(p) ==
    /\ handle[p].pc = "select"
    /\ probeChan[p] # <<>>
    /\ handle' = [handle EXCEPT ![p] =
                     [pc |-> "got", probe |-> Head(probeChan[p]), idx |-> 0]]
    /\ probeChan' = [probeChan EXCEPT ![p] = Tail(@)]
    /\ UNCHANGED <<serviceVars, basicVars, driver, successors, now, lastTick, budget, cancelled, stopClosed,
                   visited, deadlockCache, messagesSent, heap, ackChan,
                   ackWait, run, initiated, sendCalls, enqLog, abandoned,
                   reportLog>>

\* Mutants of the confirmation test: without the initiator comparison, and
\* without the deadlockCache lookup.
ShouldReportAnyInitiator(p, probe) == probe.SessionID \notin deadlockCache[p]
ShouldReportNoCache(p, probe) == probe.Initiator = p

\* if probe.Initiator == p.ID && !p.deadlockCache[probe.SessionID]
ShouldReport(p, probe) ==
    probe.Initiator = p /\ probe.SessionID \notin deadlockCache[p]

\* Mutants of the forwarding test: without the visited lookup, and with the
\* lookup inverted.
ShouldForwardAlways(p, probe) == Len(successors[p]) > 0
ShouldForwardInverted(p, probe) ==
    probe.SessionID \in visited[p] /\ Len(successors[p]) > 0

\* if !p.visited[probe.SessionID] && len(p.successors) > 0
ShouldForward(p, probe) ==
    probe.SessionID \notin visited[p] /\ Len(successors[p]) > 0

\* Mutant of the capacity of AckChan: make(chan bool, 1).
AckCapOne(key) == 1

\* AckChan: make(chan bool, len(p.successors)), made by the sender key[1].
AckCap(key) == Len(successors[key[1]])

\* select { case probe.AckChan <- true: default: } on a channel of capacity
\* len(sender.successors).
AckSend(chans, key) ==
    [chans EXCEPT ![key] = IF @ < AckCap(key) THEN @ + 1 ELSE @]

\* The "Deadlock detected" line p logs for a probe.
Report(p, probe) ==
    [proc |-> p, sid |-> probe.SessionID, initiator |-> probe.Initiator,
     sender |-> probe.Sender, path |-> ReadSlice(heap, probe.Visited),
     hops |-> Cardinality({e \in enqLog : e.sid = probe.SessionID
                                          /\ e.init = probe.Initiator}),
     n |-> Cardinality({r \in reportLog : r.proc = p
                                          /\ r.sid = probe.SessionID}) + 1]

\* handleProbes, the body under p.mu: acknowledge, then confirm, forward or
\* drop.
HandleProcess(p) ==
    /\ handle[p].pc = "got"
    /\ UNCHANGED <<serviceVars, basicVars, driver, successors, now, lastTick, budget, cancelled, stopClosed,
                   probeChan, messagesSent, ackWait, run, initiated, enqLog,
                   abandoned>>
    /\ LET probe == handle[p].probe
           acked == AckSend(ackChan, probe.AckChan)
       IN  IF ShouldReport(p, probe)
           THEN /\ reportLog' = reportLog \cup {Report(p, probe)}
                /\ deadlockCache' =
                       [deadlockCache EXCEPT ![p] = @ \cup {probe.SessionID}]
                /\ handle' = [handle EXCEPT ![p] = Idle("select")]
                /\ UNCHANGED <<visited, sendCalls>>
                /\ Collect(heap, acked)
           ELSE IF ShouldForward(p, probe)
           THEN LET key == ProbeKey(p, probe.SessionID, probe.Initiator)
                    app == AppendSlice(heap, probe.Visited, p, key)
                    newProbe == [SessionID |-> probe.SessionID,
                                 Initiator |-> probe.Initiator,
                                 Sender |-> p, Visited |-> app.slice,
                                 AckChan |-> key]
                IN  /\ visited' =
                           [visited EXCEPT ![p] = @ \cup {probe.SessionID}]
                    /\ sendCalls' =
                           sendCalls \cup {SendCall(p, probe.SessionID)}
                    /\ handle' = [handle EXCEPT ![p] =
                           [pc |-> "send", probe |-> newProbe, idx |-> 0]]
                    /\ UNCHANGED <<deadlockCache, reportLog>>
                    /\ Collect(app.heap, (key :> 0) @@ acked)
           ELSE /\ handle' = [handle EXCEPT ![p] = Idle("select")]
                /\ UNCHANGED <<visited, deadlockCache, sendCalls, reportLog>>
                /\ Collect(heap, acked)

\* -------------------------------------------------------------- sendProbe

Duties == {"run", "handle"}
DutyOf(d, p) == IF d = "run" THEN run[p] ELSE handle[p]

\* The duty d of p moves to st; the other duty stays.
SetDuty(d, p, st) ==
    /\ run' = IF d = "run" THEN [run EXCEPT ![p] = st] ELSE run
    /\ handle' = IF d = "handle" THEN [handle EXCEPT ![p] = st] ELSE handle

\* sendProbe, entry: return if stopChan is closed, else copy the successors
\* and start the deadline.
SendEnter(d, p) ==
    /\ DutyOf(d, p).pc = "send"
    /\ DutyOf(d, p).idx = 0
    /\ IF stopClosed[p]
       THEN SetDuty(d, p, Idle("select"))
       ELSE SetDuty(d, p, [DutyOf(d, p) EXCEPT !.idx = 1])
    /\ UNCHANGED <<serviceVars, basicVars, driver, successors, now, lastTick, budget, cancelled, stopClosed,
                   visited, deadlockCache, probeChan, messagesSent, ackWait,
                   initiated, sendCalls, enqLog, abandoned, reportLog>>
    /\ Collect(heap, ackChan)

\* An enqueue of a probe over the edge from -> to, numbered per edge.
Enqueued(probe, from, to) ==
    [sid |-> probe.SessionID, init |-> probe.Initiator, from |-> from,
     to |-> to,
     n |-> Cardinality({e \in enqLog : /\ e.sid = probe.SessionID
                                       /\ e.init = probe.Initiator
                                       /\ e.from = from /\ e.to = to}) + 1]

\* The channel of capacity ChanBufferSize accepts a send.
HasRoom(q) == Len(probeChan[q]) < ChanBufferSize

\* sendProbe, case succ.probeChan <- probe: p.messagesSent++; after the last
\* successor the acknowledgment-wait goroutine is started.
SendEnqueue(d, p) ==
    /\ DutyOf(d, p).pc = "send"
    /\ DutyOf(d, p).idx >= 1
    /\ LET st == DutyOf(d, p)
           succ == successors[p][st.idx]
       IN  /\ HasRoom(succ)
           /\ probeChan' = [probeChan EXCEPT ![succ] = Append(@, st.probe)]
           /\ messagesSent' = [messagesSent EXCEPT ![p] = @ + 1]
           /\ enqLog' = enqLog \cup {Enqueued(st.probe, p, succ)}
           /\ IF st.idx = Len(successors[p])
              THEN /\ ackWait' = (st.probe.AckChan :> 0) @@ ackWait
                   /\ SetDuty(d, p, Idle("select"))
              ELSE /\ ackWait' = ackWait
                   /\ SetDuty(d, p, [st EXCEPT !.idx = @ + 1])
    /\ UNCHANGED <<serviceVars, basicVars, driver, successors, now, lastTick, budget, cancelled, stopClosed,
                   visited, deadlockCache, heap, ackChan, initiated,
                   sendCalls, abandoned, reportLog>>

\* Mutant of the deadline case: the select of the send loop has none.
SendNoDeadline(d, p) == FALSE /\ UNCHANGED vars

\* sendProbe, case <-deadline: return.
SendDeadline(d, p) ==
    /\ DutyOf(d, p).pc = "send"
    /\ DutyOf(d, p).idx >= 1
    /\ abandoned' = abandoned \cup {DutyOf(d, p).probe.SessionID}
    /\ SetDuty(d, p, Idle("select"))
    /\ UNCHANGED <<serviceVars, basicVars, driver, successors, now, lastTick, budget, cancelled, stopClosed,
                   visited, deadlockCache, probeChan, messagesSent, ackWait,
                   initiated, sendCalls, enqLog, reportLog>>
    /\ Collect(heap, ackChan)

\* sendProbe, case <-ctx.Done(): return.
SendCancelled(d, p) ==
    /\ DutyOf(d, p).pc = "send"
    /\ DutyOf(d, p).idx >= 1
    /\ cancelled
    /\ SetDuty(d, p, Idle("select"))
    /\ UNCHANGED <<serviceVars, basicVars, driver, successors, now, lastTick, budget, cancelled, stopClosed,
                   visited, deadlockCache, probeChan, messagesSent, ackWait,
                   initiated, sendCalls, enqLog, abandoned, reportLog>>
    /\ Collect(heap, ackChan)

\* ------------------------------------------- the acknowledgment-wait task

Without(f, k) == [x \in DOMAIN f \ {k} |-> f[x]]

\* case <-probe.AckChan: acks++; the loop ends at acks = expected.
AckRecv(k) ==
    /\ k \in DOMAIN ackWait
    /\ ackChan[k] > 0
    /\ ackWait' = IF ackWait[k] + 1 < Len(successors[k[1]])
                  THEN [ackWait EXCEPT ![k] = @ + 1]
                  ELSE Without(ackWait, k)
    /\ UNCHANGED <<serviceVars, basicVars, driver, successors, now, lastTick, budget, cancelled, stopClosed,
                   visited, deadlockCache, probeChan, messagesSent, run,
                   handle, initiated, sendCalls, enqLog, abandoned,
                   reportLog>>
    /\ Collect(heap, [ackChan EXCEPT ![k] = @ - 1])

\* case <-deadline: return.
AckDeadline(k) ==
    /\ k \in DOMAIN ackWait
    /\ ackWait' = Without(ackWait, k)
    /\ UNCHANGED <<serviceVars, basicVars, driver, successors, now, lastTick, budget, cancelled, stopClosed,
                   visited, deadlockCache, probeChan, messagesSent, run,
                   handle, initiated, sendCalls, enqLog, abandoned,
                   reportLog>>
    /\ Collect(heap, ackChan)

\* case <-ctx.Done(): return.
AckCancelled(k) ==
    /\ k \in DOMAIN ackWait
    /\ cancelled
    /\ ackWait' = Without(ackWait, k)
    /\ UNCHANGED <<serviceVars, basicVars, driver, successors, now, lastTick, budget, cancelled, stopClosed,
                   visited, deadlockCache, probeChan, messagesSent, run,
                   handle, initiated, sendCalls, enqLog, abandoned,
                   reportLog>>
    /\ Collect(heap, ackChan)

\* ----------------------------------------------------------- RPC server

\* ds.processes[i] exists (Go indexes from 0).
InTable(tbl, i) == i >= 0 /\ i < Len(tbl)

\* ds.processes[i]
Entry(tbl, i) == tbl[i + 1]

\* Mutant of the range check: an id equal to the table size passes.
InvalidIDOffByOne(id, n) == id < 0 \/ id > n

\* if req.ProcessID < 0 || req.ProcessID >= len(ds.processes)
InvalidID(id, n) == id < 0 \/ id >= n

\* A panic in the traversal goroutine is not recovered: the server is down.
Crashed == \E r \in Calls : calls[r].pc = "panic"

\* The process ids a DetectDeadlock request may name.
RequestIDs == -1..MaxTable

\* DetectDeadlock, lines 51-65: reject an invalid id, or set up the locals
\* and spawn the traversal goroutine.
DetectDeadlock(r, id) ==
    /\ ~Crashed
    /\ calls[r].pc = "idle"
    /\ calls' =
          [calls EXCEPT ![r] =
              IF InvalidID(id, Len(processes))
              THEN [@ EXCEPT !.pc = "done", !.start = id,
                             !.res.Message = "Invalid Process ID"]
              ELSE [@ EXCEPT !.pc = "spawned", !.start = id]]
    /\ UNCHANGED <<actorVars, basicVars, processes, mutex,
                   globalMessageCounter, addsLeft, addLog>>

\* The goroutine of DetectDeadlock takes ds.mutex and enters
\* runDDFS(start, start, ...): visited[current] = true, then the range over
\* ds.processes[current].Neighbors starts.
LockAndEnter(r) ==
    /\ ~Crashed
    /\ calls[r].pc = "spawned"
    /\ mutex = 0
    /\ LET c == calls[r]
       IN  IF InTable(processes, c.start)
           THEN /\ mutex' = r
                /\ calls' =
                      [calls EXCEPT ![r] =
                          [c EXCEPT !.pc = "dfs", !.visited = {c.start},
                                    !.table = processes,
                                    !.stack = <<[current |-> c.start,
                                                 i |-> 1]>>]]
           ELSE /\ mutex' = 0
                /\ calls' = [calls EXCEPT ![r] =
                                [c EXCEPT !.pc = "panic", !.table = processes]]
    /\ UNCHANGED <<actorVars, basicVars, processes, globalMessageCounter,
                   addsLeft, addLog>>

\* messageCounts[origin]++ on a map that may not hold the key yet.
Increment(counts, origin) ==
    IF origin \in DOMAIN counts
    THEN [counts EXCEPT ![origin] = @ + 1]
    ELSE (origin :> 1) @@ counts

\* The traversal is over with the result found: the deferred Unlock and
\* wg.Done run, and DetectDeadlock fills in the response (lines 74-86).
Respond(c, found) ==
    [c EXCEPT !.pc = "done", !.stack = <<>>,
              !.res = [Message |-> "Deadlock detection completed",
                       DeadlockStatus |->
                           IF found THEN "Deadlock confirmed!"
                           ELSE "No deadlock detected.",
                       MessageCounts |-> c.messageCounts,
                       TotalMessages |-> c.localMessageCounter]]

\* Mutant of the visited test: a visited neighbor is expanded again.
UnvisitedAlways(visitedSet, neighbor) == TRUE

\* if !visited[neighbor]
Unvisited(visitedSet, neighbor) == neighbor \notin visitedSet

\* runDDFS, one turn of the loop of the innermost call (or its return false
\* after the last neighbor): count the probe, return true at the origin,
\* recurse into a neighbor not visited.
Visit(r) ==
    /\ ~Crashed
    /\ calls[r].pc = "dfs"
    /\ LET c == calls[r]
           depth == Len(c.stack)
           top == c.stack[depth]
           neighbors == Entry(processes, top.current).Neighbors
       IN  IF top.i > Len(neighbors)
           THEN IF depth = 1
                THEN /\ calls' = [calls EXCEPT ![r] = Respond(c, FALSE)]
                     /\ mutex' = 0
                ELSE /\ calls' = [calls EXCEPT ![r].stack =
                                     SubSeq(c.stack, 1, depth - 1)]
                     /\ mutex' = mutex
           ELSE LET neighbor == neighbors[top.i]
                    counted ==
                        [c EXCEPT !.messageCounts = Increment(@, c.start),
                                  !.localMessageCounter = @ + 1,
                                  !.traversed =
                                      Append(@, <<top.current, top.i>>),
                                  !.stack[depth].i = top.i + 1]
                IN  IF neighbor = c.start
                    THEN /\ calls' = [calls EXCEPT ![r] = Respond(counted, TRUE)]
                         /\ mutex' = 0
                    ELSE IF Unvisited(c.visited, neighbor)
                    THEN IF InTable(processes, neighbor)
                         THEN /\ calls' =
                                    [calls EXCEPT ![r] =
                                        [counted EXCEPT
                                            !.visited = @ \cup {neighbor},
                                            !.stack = Append(@,
                                                [current |-> neighbor,
                                                 i |-> 1])]]
                              /\ mutex' = mutex
                         ELSE /\ calls' = [calls EXCEPT ![r] =
                                              [counted EXCEPT !.pc = "panic"]]
                              /\ mutex' = 0
                    ELSE /\ calls' = [calls EXCEPT ![r] = counted]
                         /\ mutex' = mutex
    /\ UNCHANGED <<actorVars, basicVars, processes, globalMessageCounter,
                   addsLeft, addLog>>

RECURSIVE RunDDFS(_, _, _, _, _)
\* runDDFS run alone on the table tbl, from the i-th neighbor of current on:
\* st holds the visited set, the count of probes, and whether the origin was
\* found or an index was out of range.
RunDDFS(tbl, origin, current, i, st) ==
    LET neighbors == Entry(tbl, current).Neighbors
    IN  IF i > Len(neighbors) THEN st
        ELSE LET neighbor == neighbors[i]
                 counted == [st EXCEPT !.count = @ + 1]
             IN  IF neighbor = origin THEN [counted EXCEPT !.found = TRUE]
                 ELSE IF Unvisited(counted.visited, neighbor)
                 THEN IF InTable(tbl, neighbor)
                      THEN LET sub == RunDDFS(tbl, origin, neighbor, 1,
                                         [counted EXCEPT
                                             !.visited = @ \cup {neighbor}])
                           IN  IF sub.found \/ sub.panic THEN sub
                               ELSE RunDDFS(tbl, origin, current, i + 1, sub)
                      ELSE [counted EXCEPT !.panic = TRUE]
                 ELSE RunDDFS(tbl, origin, current, i + 1, counted)

\* The traversal DetectDeadlock(start) makes when it runs alone on tbl.
Alone(tbl, start) ==
    RunDDFS(tbl, start, start, 1,
            [visited |-> {start}, count |-> 0, found |-> FALSE,
             panic |-> FALSE])

\* Mutant of AddProcess's ds.mutex.Lock(): the table is appended to whoever
\* holds the mutex.
AddProcessNoLock == TRUE

\* AddProcess: ds.mutex.Lock() returns.
AddProcessLock == mutex = 0

\* The ids and the neighbor lists an AddProcess request may carry.
AddIDs(tbl) == {Len(tbl), 0}
AddNeighbors ==
    {<<>>} \cup {<<a>> : a \in 0..MaxTable}
        \cup {<<a, b>> : a \in 0..1, b \in (MaxTable - 1)..MaxTable}

\* AddProcess, under the mutex: append the new process to the table.
AddProcess(id, neighbors) ==
    /\ ~Crashed
    /\ addsLeft > 0
    /\ Len(processes) < MaxTable
    /\ AddProcessLock
    /\ processes' = Append(processes, [ID |-> id, Neighbors |-> neighbors])
    /\ addLog' = addLog \cup
           {[ID |-> id, Neighbors |-> neighbors, index |-> Len(processes),
             Message |-> "added successfully"]}
    /\ addsLeft' = addsLeft - 1
    /\ UNCHANGED <<actorVars, basicVars, mutex, globalMessageCounter, calls>>

\* ----------------------------------------------------- recursive variant

RECURSIVE sendProbe(_, _, _, _)
\* sendProbe(probeSender, origin, target, processes), from the i-th entry of
\* processes[target].waitingFor on; rp is receivedProbes of all processes.
\* Returns the result and the marks left.
sendProbe(origin, target, i, rp) ==
    IF i > Len(waitingFor[target]) THEN [found |-> FALSE, rp |-> rp]
    ELSE LET dependent == waitingFor[target][i]
         IN  IF dependent = origin THEN [found |-> TRUE, rp |-> rp]
             ELSE IF dependent \notin rp[target]
             THEN LET sub == sendProbe(origin, dependent, 1,
                                 [rp EXCEPT ![target] = @ \cup {dependent}])
                  IN  IF sub.found THEN sub
                      ELSE sendProbe(origin, target, i + 1, sub.rp)
             ELSE sendProbe(origin, target, i + 1, rp)

RECURSIVE FromOrigin(_, _, _)
\* detectDeadlock, the inner loop over process.waitingFor from its j-th
\* entry on.
FromOrigin(id, j, rp) ==
    IF j > Len(waitingFor[id]) THEN [found |-> FALSE, rp |-> rp]
    ELSE LET sent == sendProbe(id, waitingFor[id][j], 1, rp)
         IN  IF sent.found THEN sent ELSE FromOrigin(id, j + 1, sent.rp)

\* detectDeadlock, one turn of the range over the map, which yields the ids
\* in any order: reset the origin's receivedProbes, probe its dependents,
\* and print the verdict at the first deadlock or after the last process.
detectDeadlock(id) ==
    /\ verdict = ""
    /\ id \in pending
    /\ LET out == FromOrigin(id, 1, [receivedProbes EXCEPT ![id] = {}])
       IN  /\ receivedProbes' = out.rp
           /\ pending' = pending \ {id}
           /\ verdict' = IF out.found THEN "Deadlock confirmed!"
                         ELSE IF pending = {id} THEN "No deadlock detected."
                         ELSE ""
    /\ UNCHANGED <<actorVars, serviceVars, waitingFor>>

\* ---------------------------------------------------------- specification

Keys == AllProcs \X Sids \X AllProcs

\* The keys of the acknowledgment-wait goroutines that can take steps.
RunningKeys == {k \in Keys : k[1] \in Running}

\* The steps of the goroutines while main waits in its select.
NextRun ==
    \/ \E p \in Running : Tick(p)
    \/ \E p \in Running : HandleRecv(p)
    \/ \E p \in Running : HandleProcess(p)
    \/ \E p \in Running, d \in Duties : SendEnter(d, p)
    \/ \E p \in Running, d \in Duties : SendEnqueue(d, p)
    \/ \E p \in Running, d \in Duties : SendDeadline(d, p)
    \/ \E k \in RunningKeys : AckRecv(k)
    \/ \E k \in RunningKeys : AckDeadline(k)

\* The shutdown: main cancels the context and the goroutines see it.
NextStop ==
    \/ Cancel
    \/ \E p \in Running : RunStop(p)
    \/ \E p \in Running : HandleStop(p)
    \/ \E p \in Running, d \in Duties : SendCancelled(d, p)
    \/ \E k \in RunningKeys : AckCancelled(k)

\* The Run goroutines being scheduled for the first time, and main joining
\* the wait groups after the cancel.
NextJoin ==
    \/ \E p \in Running : Start(p)
    \/ \E p \in Procs : Wait(p)
    \/ Metrics

Next == NextRun \/ NextStop \/ NextJoin

\* A run from construction to shutdown.
Spec == Init /\ [][Next]_vars

\* Runs of scheduled goroutines up to the shutdown.
SpecAcyclic == InitAcyclic /\ [][NextRun \/ NextStop]_vars

\* Runs while main waits: no shutdown.
SpecRun == InitRun /\ [][NextRun]_vars
SpecRing == InitRing /\ [][NextRun]_vars
SpecFan == InitFan /\ [][NextRun]_vars
SpecPaths == InitPaths /\ [][NextRun]_vars

\* The RPC server: requests arrive and are served concurrently.
NextRPC ==
    \/ \E r \in Calls, id \in RequestIDs : DetectDeadlock(r, id)
    \/ \E r \in Calls : LockAndEnter(r)
    \/ \E r \in Calls : Visit(r)
    \/ \E id \in AddIDs(processes), neighbors \in AddNeighbors :
           AddProcess(id, neighbors)

SpecRPC == InitRPC /\ [][NextRPC]_vars

\* The recursive variant: detectDeadlock goes through the map.
NextRecursive == \E id \in DOMAIN waitingFor : detectDeadlock(id)

SpecRecursive == InitRecursive /\ [][NextRecursive]_vars

\* The processes of the graphs of RunCases.
RunProcs == UNION {DOMAIN c[1] : c \in RunCases}

\* A step of a goroutine that is under way: all of NextRun but the ticks.
Progress ==
    \/ \E p \in Running : HandleRecv(p)
    \/ \E p \in Running : HandleProcess(p)
    \/ \E p \in Running, d \in Duties : SendEnter(d, p)
    \/ \E p \in Running, d \in Duties : SendEnqueue(d, p)
    \/ \E p \in Running, d \in Duties : SendDeadline(d, p)
    \/ \E k \in RunningKeys : AckRecv(k)
    \/ \E k \in RunningKeys : AckDeadline(k)

\* The scheduler keeps running goroutines that can take a step, and the
\* timer behind time.After fires: while some goroutine can take a step, one
\* is taken.  Nothing makes a ticker tick again.
Fairness == WF_vars(Progress)

FairSpec == SpecRun /\ Fairness


\* ================================================================= claims

\* Every probe a channel or a goroutine holds.
Held == LiveProbes(probeChan, run, handle)

\* ---------------------------------------------------------------------- C1
\* C1: on an acyclic dependency graph no process ever logs "Deadlock
\* detected", whatever the interleaving of ticks, handling, deadlines and
\* shutdown.
C1_NoReportWhenAcyclic == Acyclic(successors) => reportLog = {}

\* On the chain 0 -> 1 -> 2 -> 3 a probe of a session of 0 reached process 3
\* and was handled there.
C1_Witness ==
    /\ successors = Chain(4)
    /\ \E e \in enqLog : e.init = 0 /\ e.to = 3
    /\ probeChan[3] = <<>>
    /\ handle[3].pc = "select"
    /\ reportLog = {}

\* ---------------------------------------------------------------------- C2
\* Another process started a session with the same id.
Shared(p, sid) == \E q \in Procs \ {p} : <<q, sid>> \in initiated

\* C2: a process on a dependency cycle that initiates a session eventually
\* reports deadlock for it, unless a deadline expires on a probe of the
\* session or the session id is shared (no run of FairSpec has a shutdown).
C2_CycleEventuallyConfirmed ==
    \A p \in RunProcs, sid \in Sids :
        (/\ p \in Procs
         /\ OnCycle(successors, p)
         /\ <<p, sid>> \in initiated)
        ~> (/\ p \in Procs
            /\ \/ sid \in deadlockCache[p]
               \/ sid \in abandoned
               \/ Shared(p, sid))

\* A process on a cycle confirmed a session of its own that is not shared
\* and lost no probe to a deadline.
C2_Witness ==
    \E p \in Procs, sid \in Sids :
        /\ OnCycle(successors, p)
        /\ <<p, sid>> \in initiated
        /\ sid \in deadlockCache[p]
        /\ sid \notin abandoned
        /\ ~Shared(p, sid)

\* ---------------------------------------------------------------------- C3
\* C3 as claimed: if the initiator lies on a cycle of length k, the path it
\* reports has at most k entries.
C3_AtMostAnyCycle ==
    \A r \in reportLog :
        \A k \in CycleLengths(successors, r.proc) : Len(r.path) <= k

\* C3, amended: the reported path has at most as many entries as the longest
\* simple cycle through the initiator.
C3_AtMostLongestCycle ==
    \A r \in reportLog :
        \E k \in CycleLengths(successors, r.proc) : Len(r.path) <= k

\* The initiator lies on a cycle of length 2 and reports a path of 3 entries.
C3_Witness ==
    \E r \in reportLog :
        /\ 2 \in CycleLengths(successors, r.proc)
        /\ Len(r.path) = 3

\* ---------------------------------------------------------------------- C4
\* C4: a process calls sendProbe at most once per session id, its own
\* initiation included.
C4_SendAtMostOnce == \A c \in sendCalls : c.n = 1

\* ---------------------------------------------------------------------- C5
\* C5: a process reports deadlock at most once per session id, and a probe
\* of a session it has confirmed is dropped: no report, no sendProbe call,
\* nothing enqueued.
C5_IdempotentConfirmation ==
    /\ [](\A r \in reportLog : r.n = 1)
    /\ [][\A p \in Procs :
            (/\ handle[p].pc = "got"
             /\ handle[p].probe.SessionID \in deadlockCache[p]
             /\ handle'[p] # handle[p])
            => (/\ handle'[p] = Idle("select")
                /\ reportLog' = reportLog
                /\ sendCalls' = sendCalls
                /\ probeChan' = probeChan)]_vars

\* Two probes of one session came back to their initiator, both were
\* handled and one report was logged.
C5_Witness ==
    \E r \in reportLog :
        /\ Cardinality({e \in enqLog : /\ e.sid = r.sid /\ e.init = r.proc
                                       /\ e.to = r.proc}) >= 2
        /\ probeChan[r.proc] = <<>>
        /\ handle[r.proc].pc = "select"

\* ---------------------------------------------------------------------- C6
\* A dependency path from its first entry.
IsPath(g, path) ==
    \A i \in 1..(Len(path) - 1) : path[i + 1] \in Succs(g, path[i])

\* C6: the path of a probe never changes once the probe is sent: it ends
\* with the probe's sender, and a reported path is a dependency path from the
\* initiator to the sender of the confirming probe, a predecessor of the
\* initiator.
C6_PathIntegrity ==
    /\ \A pr \in Held :
          ReadSlice(heap, pr.Visited)[pr.Visited.len] = pr.Sender
    /\ \A r \in reportLog :
          /\ r.path[1] = r.initiator
          /\ IsPath(successors, r.path)
          /\ r.path[Len(r.path)] = r.sender
          /\ r.initiator \in Succs(successors, r.sender)

\* ---------------------------------------------------------------------- C7
\* The ring order of n processes starting at i.
RingOrder(n, i) == [j \in 1..n |-> (i + j - 1) % n]

\* C7: in a ring of n processes a session is confirmed only at a process
\* that initiated it, with the ring order from that process as path, after n
\* probes of the session were enqueued.
C7_RingConfirmation ==
    \A r \in reportLog :
        /\ <<r.proc, r.sid>> \in initiated
        /\ r.initiator = r.proc
        /\ r.path = RingOrder(Cardinality(Procs), r.proc)
        /\ r.hops = Cardinality(Procs)

\* The ring of 4: process 0 confirmed with path [0,1,2,3] after 4 deliveries.
C7_Witness ==
    /\ successors = Ring(4)
    /\ \E r \in reportLog :
          r.proc = 0 /\ r.path = <<0, 1, 2, 3>> /\ r.hops = 4

\* ---------------------------------------------------------------------- C8
\* C8: a sendProbe call that gives up on a successor whose queue is full
\* leaves no later successor with room in its queue without the probe.
C8_IndependentDelivery ==
    [][\A p \in Procs, d \in Duties :
          (/\ DutyOf(d, p).pc = "send"
           /\ DutyOf(d, p).idx >= 1
           /\ ~HasRoom(successors[p][DutyOf(d, p).idx])
           /\ IF d = "run" THEN run'[p].pc = "select"
                           ELSE handle'[p].pc = "select")
          => \A j \in (DutyOf(d, p).idx + 1)..Len(successors[p]) :
                ~HasRoom(successors[p][j])]_vars

\* ---------------------------------------------------------------------- C9
\* The duty d of p is inside the send loop of sendProbe.
Sending(d, p) == p \in Procs /\ DutyOf(d, p).pc = "send"

\* The duty d of p waits at a successor whose queue is full.
Blocked(d, p) ==
    /\ DutyOf(d, p).pc = "send"
    /\ DutyOf(d, p).idx >= 1
    /\ ~HasRoom(successors[p][DutyOf(d, p).idx])

\* C9: a loop that is inside sendProbe eventually is back at its select,
\* to take its next probe or tick.
C9_SendProbeReturns ==
    \A p \in RunProcs, d \in Duties :
        Sending(d, p) ~> (p \in Procs /\ DutyOf(d, p).pc = "select")

\* A ring of blocked processes: every handling loop of a set of processes
\* waits at the full queue of a process of the set.
C9_Witness ==
    \E ring \in SUBSET Procs \ {{}} :
        \A p \in ring :
            /\ Blocked("handle", p)
            /\ successors[p][handle[p].idx] \in ring

\* --------------------------------------------------------------------- C10
\* C10, the part of the claim that fails: once the context is cancelled no
\* new session is initiated.
C10_NoSessionAfterShutdown == [][cancelled => initiated' = initiated]_vars

\* --------------------------------------------------------------------- C11
\* C11: when main has passed its wg.Wait calls and reads the counters, every
\* Run loop, every handling loop and every acknowledgment-wait goroutine has
\* terminated.
C11_ShutdownJoinsAll ==
    driver.pc = "exit"
        => /\ \A p \in Procs : run[p].pc = "done" /\ handle[p].pc = "done"
           /\ ackWait = <<>>

\* --------------------------------------------------------------------- C12
\* C12: no two sessions carry the same session id, whichever processes
\* started them.
C12_UniqueSessionIds ==
    \A a \in initiated, b \in initiated : a[2] = b[2] => a = b

\* --------------------------------------------------------------------- C13
\* The dependency graph of a table: the edges to processes of the table.
TableGraph(tbl) ==
    [i \in 0..(Len(tbl) - 1) |->
        SelectSeq(Entry(tbl, i).Neighbors, LAMBDA n : InTable(tbl, n))]

\* The call r was answered after a traversal.
Answered(r) ==
    calls[r].pc = "done" /\ calls[r].res.Message # "Invalid Process ID"

\* The status a call on start owes for the table tbl.
StatusFor(tbl, start) ==
    IF OnCycle(TableGraph(tbl), start) THEN "Deadlock confirmed!"
    ELSE "No deadlock detected."

\* C13, the status alone: an answered call reports "Deadlock confirmed!"
\* exactly when its start can reach itself in the table it traversed.
StatusMatchesReachability ==
    \A r \in Calls :
        Answered(r) =>
            calls[r].res.DeadlockStatus
                = StatusFor(calls[r].table, calls[r].start)

\* C13: every DetectDeadlock call on a valid id completes, no traversal
\* panics, and the status it returns says whether its start can reach itself.
C13_ResultMatchesReachability ==
    /\ \A r \in Calls : calls[r].pc # "panic"
    /\ StatusMatchesReachability

\* --------------------------------------------------------------------- C14
\* C14: a DetectDeadlock call whose id is below 0 or not below the table
\* size returns "Invalid Process ID" at once: no traversal is set up, the
\* mutex, the table, the counters and the other calls stay as they are.
C14_InvalidIDRejected ==
    [][\A r \in Calls :
          (/\ calls[r].pc = "idle"
           /\ calls'[r].pc # "idle"
           /\ (calls'[r].start < 0 \/ calls'[r].start >= Len(processes)))
          => /\ calls'[r] =
                   [NoCall EXCEPT !.pc = "done", !.start = calls'[r].start,
                                  !.res.Message = "Invalid Process ID"]
             /\ \A q \in Calls \ {r} : calls'[q] = calls[q]
             /\ processes' = processes
             /\ mutex' = mutex
             /\ globalMessageCounter' = globalMessageCounter]_vars

\* A call naming the table size itself was rejected while another call was
\* in its traversal.
C14_Witness ==
    \E r \in Calls, q \in Calls :
        /\ calls[r].pc = "done"
        /\ calls[r].res.Message = "Invalid Process ID"
        /\ calls[r].start = Len(processes)
        /\ calls[q].pc = "dfs"

\* --------------------------------------------------------------------- C15
\* The list names an id that is no index of a table of n processes.
OutOfRange(neighbors, n) ==
    \E i \in 1..Len(neighbors) : neighbors[i] < 0 \/ neighbors[i] >= n

\* C15: an AddProcess request with a neighbor id outside the table (the new
\* process counted in) leaves the table unchanged, and no traversal ever
\* indexes outside the table.
C15_AddValidated ==
    /\ [][\A a \in addLog' \ addLog :
             OutOfRange(a.Neighbors, Len(processes) + 1)
                 => processes' = processes]_vars
    /\ [](\A r \in Calls : calls[r].pc # "panic")

\* --------------------------------------------------------------------- C16
\* The call r has finished its traversal, with an answer or a panic.
Traversed(r) == Answered(r) \/ calls[r].pc = "panic"

\* C16: the table does not change while a traversal holds the mutex, at most
\* one traversal is under way, and a finished traversal has the result and
\* the visited set of a traversal run alone on the table as it was when the
\* traversal took the mutex.
C16_TraversalIsolated ==
    /\ [][(\E r \in Calls : calls[r].pc = "dfs")
             => processes' = processes]_vars
    /\ [](\A r \in Calls :
             /\ calls[r].pc = "dfs" <=> mutex = r
             /\ calls[r].pc = "dfs" => calls[r].table = processes
             /\ Traversed(r) =>
                   LET alone == Alone(calls[r].table, calls[r].start)
                   IN  /\ alone.panic <=> calls[r].pc = "panic"
                       /\ Answered(r) =>
                            /\ calls[r].visited = alone.visited
                            /\ calls[r].res.DeadlockStatus
                                 = IF alone.found THEN "Deadlock confirmed!"
                                   ELSE "No deadlock detected."
                            /\ calls[r].res.TotalMessages = alone.count)

\* A traversal over three processes was answered, and the table has grown
\* since it took the mutex, while another call waited for the mutex.
C16_Witness ==
    \E r \in Calls, q \in Calls :
        /\ Answered(r)
        /\ Cardinality(calls[r].visited) >= 3
        /\ Len(processes) > Len(calls[r].table)
        /\ calls[q].pc = "spawned"

\* --------------------------------------------------------------------- C17
RECURSIVE EdgeCount(_, _)
\* The number of dependency edges of g that leave the processes of ps.
EdgeCount(g, ps) ==
    IF ps = {} THEN 0
    ELSE LET p == CHOOSE q \in ps : TRUE
         IN  Len(g[p]) + EdgeCount(g, ps \ {p})

\* The enqueues of the session that init started with the id sid.
EnqueuesOf(sid, init) == {e \in enqLog : e.sid = sid /\ e.init = init}

\* C17: the probes of a session (an initiator and its session id) are
\* enqueued at most once over each dependency edge, hence at most as often
\* as the graph has edges.
C17_MessageBound ==
    /\ \A e \in enqLog : e.n = 1
    /\ \A s \in initiated :
          Cardinality(EnqueuesOf(s[2], s[1])) <= EdgeCount(successors, Procs)

\* C17 read per session id, whoever initiated.
PerIdMessageBound ==
    \A sid \in Sids :
        /\ Cardinality({e \in enqLog : e.sid = sid})
               <= EdgeCount(successors, Procs)
        /\ \A e \in enqLog, f \in enqLog :
              (e.sid = sid /\ f.sid = sid /\ e.from = f.from /\ e.to = f.to)
                  => e = f

\* A session's probes were enqueued over every edge of a graph with a
\* process that has two successors.
C17_Witness ==
    \E s \in initiated :
        /\ \E p \in Procs : Len(successors[p]) = 2
        /\ Cardinality(EnqueuesOf(s[2], s[1])) = EdgeCount(successors, Procs)

\* --------------------------------------------------------------------- C18
\* The probes in the queues.
Queued == UNION {{probeChan[p][i] : i \in 1..Len(probeChan[p])} : p \in Procs}

\* C18: the path of every probe in a queue starts with the probe's
\* initiator, holds no process id twice and is no longer than the number of
\* processes.
C18_PathBound ==
    \A pr \in Queued :
        LET path == ReadSlice(heap, pr.Visited)
        IN  /\ path[1] = pr.Initiator
            /\ \A i \in 1..Len(path), j \in 1..Len(path) :
                  path[i] = path[j] => i = j
            /\ Len(path) <= Cardinality(Procs)

\* A probe in a queue has a path of four processes whose last entry was
\* overwritten by another forwarder.
C18_Witness ==
    \E pr \in Queued :
        LET path == ReadSlice(heap, pr.Visited)
        IN  Len(path) = 4 /\ path[4] # pr.Sender

\* --------------------------------------------------------------------- C19
\* C19: detectDeadlock prints "Deadlock confirmed!" only on a map with a
\* cycle and "No deadlock detected." only on a map without one, in whatever
\* order the range yields the processes.
C19_ConfirmedIffCycle ==
    /\ verdict = "Deadlock confirmed!" => ~Acyclic(waitingFor)
    /\ verdict = "No deadlock detected." => Acyclic(waitingFor)

\* --------------------------------------------------------------------- C20
\* MessageCounts[start] as the client reads it: 0 when the map has no entry.
CountFor(counts, start) == IF start \in DOMAIN counts THEN counts[start] ELSE 0

RECURSIVE TableEdges(_)
\* The number of edges of a table.
TableEdges(tbl) ==
    IF tbl = <<>> THEN 0 ELSE Len(Head(tbl).Neighbors) + TableEdges(Tail(tbl))

\* C20: a traversal goes over no edge of the table twice (no process is
\* expanded twice); its counter and its MessageCounts[start] both equal the
\* number of edges it went over, at most the number of edges of the table;
\* and the response carries these counts.
C20_MessageCounting ==
    \A r \in Calls :
        LET c == calls[r]
        IN  /\ \A i \in 1..Len(c.traversed), j \in 1..Len(c.traversed) :
                  c.traversed[i] = c.traversed[j] => i = j
            /\ c.localMessageCounter = Len(c.traversed)
            /\ CountFor(c.messageCounts, c.start) = Len(c.traversed)
            /\ DOMAIN c.messageCounts \subseteq {c.start}
            /\ Len(c.traversed) <= TableEdges(c.table)
            /\ Answered(r) =>
                  /\ c.res.TotalMessages = Len(c.traversed)
                  /\ CountFor(c.res.MessageCounts, c.start) = Len(c.traversed)

\* Two calls were answered, both after going over three edges or more, and
\* one took the mutex while the other was waiting for it.
C20_Witness ==
    \E r \in Calls, q \in Calls :
        /\ r # q
        /\ Answered(r) /\ Answered(q)
        /\ calls[r].res.TotalMessages >= 3
        /\ calls[q].res.TotalMessages >= 3
        /\ calls[r].start # calls[q].start

\* --------------------------------------------------------------------- C21
\* C21: every process of the table is stored at the index equal to its ID.
C21_IdEqualsIndex ==
    \A i \in 0..(Len(processes) - 1) : Entry(processes, i).ID = i

\* --------------------------------------------------------------------- C22
\* The probes of the acknowledgment channel key that no handling loop has
\* acknowledged yet: in a queue, or taken and not yet handled.
Unacked(key) ==
    Cardinality({<<p, i>> \in Procs \X (1..ChanBufferSize) :
                    i <= Len(probeChan[p]) /\ probeChan[p][i].AckChan = key})
        + Cardinality({p \in Procs : /\ handle[p].pc = "got"
                                     /\ handle[p].probe.AckChan = key})

\* C22: a handling loop that has taken a probe can always go on, its
\* acknowledgment finds room in the channel (buffered acknowledgments and
\* probes still to be acknowledged never exceed the capacity, and the probe
\* is enqueued at most once per successor of its sender), and whether it
\* confirms, forwards or drops is decided by the initiator, deadlockCache,
\* visited and successors alone.
C22_Acknowledgments ==
    /\ [](\A p \in Procs :
             handle[p].pc = "got" =>
                 /\ ENABLED HandleProcess(p)
                 /\ ackChan[handle[p].probe.AckChan]
                        < AckCap(handle[p].probe.AckChan))
    /\ [](\A key \in DOMAIN ackChan :
             ackChan[key] + Unacked(key) <= AckCap(key))
    /\ [](\A e \in enqLog : e.n = 1 /\ e.to \in Succs(successors, e.from))
    /\ [][\A p \in Procs :
            (handle[p].pc = "got" /\ handle'[p] # handle[p]) =>
                LET probe == handle[p].probe
                    confirm == /\ probe.Initiator = p
                               /\ probe.SessionID \notin deadlockCache[p]
                    forward == /\ ~confirm
                               /\ probe.SessionID \notin visited[p]
                               /\ Len(successors[p]) > 0
                IN  /\ reportLog' # reportLog <=> confirm
                    /\ handle'[p].pc = "send" <=> forward
                    /\ handle'[p].pc = "select" <=> ~forward]_vars

\* Both successors of a sender acknowledged its probe before the
\* acknowledgment-wait goroutine took either acknowledgment.
C22_Witness ==
    \E key \in DOMAIN ackChan :
        /\ AckCap(key) = 2
        /\ ackChan[key] = 2
        /\ key \in DOMAIN ackWait

====
